---- MODULE Spec2Model ----
(***************************************************************************)
(* Import pipeline of BrokerCursor: core/scripts/import/import_reports.py  *)
(* with the store operations of core/database/operations.py and the        *)
(* filesystem moves it performs.  One run of import_reports scans the      *)
(* inbox and carries each file through process_file_enhanced; the steps    *)
(* of process_file_enhanced that touch the store or the filesystem are     *)
(* separate actions, taken in program order under the control variable pc. *)
(***************************************************************************)
EXTENDS Integers, Sequences, FiniteSets, TLC

(* ---- bounds of the model ---- *)
MaxFiles == 2
MaxRuns == 2
MaxFaults == 1
MaxNameLen == 3
MaxReports == 3
MaxKills == 1

(* the most entries of a parser's field log *)
MaxLog == 3

(* the most files in the two directories of a move *)
MaxDirFiles == 3

(* Python None *)
NONE == "None"

(* ---- the files that may be dropped into the inbox ---- *)
(* a name is the sequence of its '_'-separated words, a text stands for a *)
(* file content; the files dropped between two runs are listed in this    *)
(* order, the scan order of a run is free                                 *)
Candidates ==
    << [name |-> <<"sber", "2023-07">>, text |-> "t1"],
      [name |-> <<"sber", "S000T49", "2023-07">>, text |-> "t2"],
      [name |-> <<"report", "2023-07">>, text |-> "t2"],
      [name |-> <<"sber", "2023-07">>, text |-> "t3"],
      [name |-> <<"sber", "2023-07">>, text |-> "t4"],
      [name |-> <<"sber", "S000T49", "2023-07">>, text |-> "t5"],
      [name |-> <<"report", "2023-07">>, text |-> "t5"],
      [name |-> <<"4000T49", "2023-08">>, text |-> "t1"] >>

(* hashlib.sha256(content.encode('utf-8')).hexdigest(): one hash per text *)
sha256(t) ==
    CASE t = "t1" -> "h1"
      [] t = "t2" -> "h2"
      [] t = "t3" -> "h3"
      [] t = "t4" -> "h4"
      [] t = "t5" -> "h5"
      [] t = "t6" -> "h6"
      [] t = "t7" -> "h7"

(* lower-cased words that occur in a content *)
ContentWords(t) ==
    CASE t = "t1" -> {"sberbank"}
      [] t = "t2" -> {"sberbank"}
      [] t = "t3" -> {"sberbank"}
      [] t = "t4" -> {"sberbank"}
      [] t = "t5" -> {}
      [] t = "t6" -> {"tinkoff"}
      [] t = "t7" -> {"tinkoff", "sberbank"}

(* str.lower() on the words used in names *)
Lower(w) ==
    CASE w = "4000T49" -> "4000t49"
      [] w = "S000T49" -> "s000t49"
      [] w = "SBER" -> "sber"
      [] OTHER -> w

(* pattern in word: the patterns of the table that are substrings of a *)
(* lower-cased word                                                    *)
PatternsIn(w) ==
    CASE w = "sber" -> {"sber"}
      [] w = "sberbank" -> {"sber", "sberbank"}
      [] w = "tinkoff" -> {"tinkoff"}
      [] w = "4000t49" -> {"4000t49"}
      [] OTHER -> {}

PatternsInAll(ws) == UNION { PatternsIn(w) : w \in ws }

Words(name) == { name[i] : i \in 1..Len(name) }

(* ---- brokers_patterns.json as loaded by load_broker_patterns ---- *)
BrokerOrder == <<"sber", "tinkoff">>

filename_patterns(b) ==
    CASE b = "sber" -> {"sber"}
      [] b = "tinkoff" -> {"4000t49", "tinkoff"}

html_patterns(b) ==
    CASE b = "sber" -> {"sberbank"}
      [] b = "tinkoff" -> {"tinkoff"}

(* for broker, config in patterns.items(): the first broker of the table, *)
(* from position i on, that is not named 'unknown' and has a hit          *)
RECURSIVE FirstBroker(_, _)
FirstBroker(i, hits) ==
    IF i > Len(BrokerOrder) THEN "unknown"
    ELSE IF BrokerOrder[i] # "unknown" /\ BrokerOrder[i] \in hits THEN BrokerOrder[i]
    ELSE FirstBroker(i + 1, hits)

(* variant: the content patterns are tried before the filename patterns *)
detect_broker_tiered_content_first(name, t) ==
    LET filename_lower == { Lower(w) : w \in Words(name) }
        content_lower == ContentWords(t)
        tier1 == { b \in {"sber", "tinkoff"} :
                     filename_patterns(b) \cap PatternsInAll(filename_lower) # {} }
        tier2 == { b \in {"sber", "tinkoff"} :
                     html_patterns(b) \cap PatternsInAll(content_lower) # {} }
    IN  IF FirstBroker(1, tier2) # "unknown" THEN FirstBroker(1, tier2)
        ELSE FirstBroker(1, tier1)

detect_broker_tiered(name, t) ==
    LET filename_lower == { Lower(w) : w \in Words(name) }
        content_lower == ContentWords(t)
        tier1 == { b \in {"sber", "tinkoff"} :
                     filename_patterns(b) \cap PatternsInAll(filename_lower) # {} }
        tier2 == { b \in {"sber", "tinkoff"} :
                     html_patterns(b) \cap PatternsInAll(content_lower) # {} }
    IN  IF FirstBroker(1, tier1) # "unknown" THEN FirstBroker(1, tier1)
        ELSE FirstBroker(1, tier2)

(* ---- filename metadata ---- *)
PeriodWords == {"2023-07", "2023-08"}
YearWords == {"2023"}
MonthHints == <<"03", "04", "05", "06", "07", "08", "10", "11", "12">>

RECURSIVE FirstPeriodWord(_, _)
FirstPeriodWord(name, i) ==
    IF i > Len(name) THEN NONE
    ELSE IF name[i] \in PeriodWords THEN name[i]
    ELSE FirstPeriodWord(name, i + 1)

RECURSIVE FirstMonthHint(_, _)
FirstMonthHint(name, i) ==
    IF i > Len(MonthHints) THEN NONE
    ELSE IF MonthHints[i] \in Words(name) THEN MonthHints[i]
    ELSE FirstMonthHint(name, i + 1)

JoinPeriod(y, m) ==
    CASE y = "2023" /\ m = "07" -> "2023-07"
      [] y = "2023" /\ m = "08" -> "2023-08"
      [] OTHER -> "unknown"

extract_period_from_filename(name) ==
    IF FirstPeriodWord(name, 1) # NONE THEN FirstPeriodWord(name, 1)
    ELSE IF Words(name) \cap YearWords # {} /\ FirstMonthHint(name, 1) # NONE
         THEN JoinPeriod(CHOOSE y \in Words(name) \cap YearWords : TRUE, FirstMonthHint(name, 1))
    ELSE "unknown"

extract_account_from_filename(name) ==
    IF "4000T49" \in Words(name) THEN "4000T49"
    ELSE IF "S000T49" \in Words(name) THEN "S000T49"
    ELSE NONE

(* ---- state ---- *)
VARIABLES
    files,       \* every file that ever entered the inbox: [name, text, loc, present]
    reports,     \* table broker_reports, in insertion order
    import_log,  \* table import_log, in insertion order
    events,      \* diagnostics/import_duplicates.log, in write order
    stats,       \* EnhancedReportImporter.stats of the running importer
    files_info,  \* the files discovered by the current run, in scan order
    queue,       \* the part of files_info the loop has not reached yet
    cur,         \* the file being processed (0: none)
    pc,          \* position in import_reports / process_file_enhanced
    ctx,         \* locals of process_file_enhanced
    runs,        \* number of runs started
    faults,      \* number of I/O and store errors that happened
    last,        \* per file, what its latest processing did (history)
    dropped,     \* position in Candidates of the file dropped last since the last run
    dry_run,     \* argument dry_run of the latest call of import_reports
    success,     \* what that call returned (None while it runs)
    registry,    \* core.parsers.PARSER_REGISTRY: broker name -> parser class
    ret,         \* the latest call of a registry function and what it returned
    other,       \* a second pipeline instance working on the same store
    parser,      \* a parser instance: parsed_fields, field_log and its latest call
    dirs         \* two directories (name -> content) and the latest safe_move_file call

vars == <<files, reports, import_log, events, stats, files_info, queue, cur, pc, ctx, runs, faults, last, dropped, dry_run, success, registry, ret, other, parser, dirs>>

(* ---- parser registry and the Sber parser ---- *)
(* the module-level dict at import time: broker name -> parser class *)
PARSER_REGISTRY == [b \in {"sber"} |-> "SberHtmlParser"]

(* the classes a caller may register (Type[BaseHtmlParser]); a class is *)
(* truthy                                                               *)
ParserClasses == {"SberHtmlParser", "MockParser"}

RegistryBrokers == {"sber", "test_broker", ""}

(* broker in PARSER_REGISTRY *)
is_broker_supported(broker) == broker \in DOMAIN registry

(* PARSER_REGISTRY.get(broker): None for a missing key *)
registry_get(broker) == IF broker \in DOMAIN registry THEN registry[broker] ELSE NONE

(* variant: an unregistered broker gets the Sber parser *)
get_parser_default_sber(broker) ==
    IF registry_get(broker) # NONE THEN registry_get(broker) ELSE "SberHtmlParser"

(* get_parser: the class of the new instance, or "ValueError" when it raises *)
get_parser(broker) ==
    IF registry_get(broker) # NONE THEN registry_get(broker) ELSE "ValueError"

(* list_supported_brokers: the keys of PARSER_REGISTRY *)
list_supported_brokers == DOMAIN registry

(* get_supported_broker of an instance of parser_class: SberHtmlParser  *)
(* sets _supported_broker in __init__, a class that sets nothing yields *)
(* the default                                                          *)
get_supported_broker(parser_class) ==
    IF parser_class = "SberHtmlParser" THEN "sber" ELSE "unknown"

(* variant: registering replaces the whole registry *)
register_parser_replacing(broker, parser_class) == [b \in {broker} |-> parser_class]

(* register_parser: PARSER_REGISTRY[broker] = parser_class *)
register_parser(broker, parser_class) ==
    [b \in DOMAIN registry \cup {broker} |->
        IF b = broker THEN parser_class ELSE registry[b]]

(* SberHtmlParser.parse: raises, or returns a mapping that always carries *)
(* the keys account_number and period_start, each possibly None           *)
SberParse(t) ==
    CASE t = "t1" -> [raises |-> FALSE, account_number |-> "S000T49", period_start |-> "2023-07-01"]
      [] t = "t2" -> [raises |-> FALSE, account_number |-> "S000T49", period_start |-> "2023-07-01"]
      [] t = "t3" -> [raises |-> FALSE, account_number |-> "S000T49", period_start |-> "2023-08-01"]
      [] t = "t4" -> [raises |-> FALSE, account_number |-> NONE, period_start |-> NONE]
      [] t = "t5" -> [raises |-> TRUE, account_number |-> NONE, period_start |-> NONE]

NoData == [ok |-> FALSE, account_number |-> NONE, period_start |-> NONE]

(* what parser.parse(content) may do.  The registry is open              *)
(* (register_parser): on a content it cannot handle a registered parser  *)
(* raises (as SberHtmlParser does) or returns a value that is no         *)
(* non-empty dict: None, a non-dict, an empty dict.                      *)
InvalidOutputs == {"None", "non_dict", "empty"}

parser_outcomes(broker, t) ==
    IF ~is_broker_supported(broker) THEN {"not_called"}
    ELSE IF SberParse(t).raises THEN {"raises"} \cup InvalidOutputs
    ELSE {"dict"}

(* not parsed_data or not isinstance(parsed_data, dict) *)
invalid_parser_output(out) == out \in {"None", "empty"} \/ out = "non_dict"

(* variant: a value that is no dict is taken for parsed data without the *)
(* required fields                                                       *)
parse_file_content_unvalidated(broker, t, out) ==
    IF ~is_broker_supported(broker) THEN <<NoData, "no_parser_found">>
    ELSE IF out = "raises" THEN <<NoData, "parse_failed">>
    ELSE IF out \in InvalidOutputs
         THEN <<[ok |-> TRUE, account_number |-> NONE, period_start |-> NONE], "success">>
    ELSE <<[ok |-> TRUE,
            account_number |-> SberParse(t).account_number,
            period_start |-> SberParse(t).period_start], "success">>

(* variant: a broker without a parser is handled like a parser that *)
(* raised                                                           *)
parse_file_content_any_broker(broker, t, out) ==
    IF ~is_broker_supported(broker) THEN <<NoData, "parse_failed">>
    ELSE IF out = "raises" THEN <<NoData, "parse_failed">>
    ELSE IF invalid_parser_output(out) THEN <<NoData, "invalid_parser_output">>
    ELSE <<[ok |-> TRUE,
            account_number |-> SberParse(t).account_number,
            period_start |-> SberParse(t).period_start], "success">>

(* _parse_file_content: <<parsed_data, parse_status>>; out is what the *)
(* parser did                                                          *)
parse_file_content(broker, t, out) ==
    IF ~is_broker_supported(broker) THEN <<NoData, "no_parser_found">>
    ELSE IF out = "raises" THEN <<NoData, "parse_failed">>
    ELSE IF invalid_parser_output(out) THEN <<NoData, "invalid_parser_output">>
    ELSE <<[ok |-> TRUE,
            account_number |-> SberParse(t).account_number,
            period_start |-> SberParse(t).period_start], "success">>

(* parsed_data['period_start'][:7] *)
Prefix7(d) ==
    CASE d = "2023-07-01" -> "2023-07"
      [] d = "2023-08-01" -> "2023-08"


ArchiveDirs == {"imported", "exact_duplicates", "logical_duplicates", "unrecognized"}

Stats0 ==
    [files_processed |-> 0, files_success |-> 0, files_failed |-> 0,
     files_skipped |-> 0, unknown_broker |-> 0, errors |-> 0]

Ctx0 ==
    [file_hash |-> NONE, broker |-> NONE, account |-> NONE, period |-> NONE,
     parsed_data |-> NoData]

(* no registry function has been called *)
Ret0 == [op |-> "none", broker |-> NONE, parser_class |-> NONE, result |-> NONE]

(* the second instance is not running *)
Other0 == [pc |-> "off", fid |-> 0, ctx |-> Ctx0, result |-> "none"]

(* ---- BaseHtmlParser: the field log of one parser instance ---- *)
(* field names and values passed to log_field; "" is a value that is *)
(* not None                                                          *)
LogFields == {"account_number", "period_start"}

LogValues == {"S000T49", "", NONE}

LogSources == {"parser", "computed"}

(* type(value).__name__ *)
type_name(value) == IF value = NONE THEN "NoneType" ELSE "str"

(* BaseHtmlParser.__init__ *)
Parser0 == [parsed_fields |-> <<>>, field_log |-> <<>>, call |-> "none"]

(* variant: is_null is set for every value that is false in a condition *)
log_field_falsy(p, field_name, value, source) ==
    [parsed_fields |-> (field_name :> value) @@ p.parsed_fields,
     field_log |-> Append(p.field_log,
                      [field |-> field_name, value |-> value, type |-> type_name(value),
                       source |-> source, is_null |-> value \in {NONE, ""}]),
     call |-> "log_field"]

(* log_field: append the entry, then parsed_fields[field_name] = value *)
log_field(p, field_name, value, source) ==
    [parsed_fields |-> (field_name :> value) @@ p.parsed_fields,
     field_log |-> Append(p.field_log,
                      [field |-> field_name, value |-> value, type |-> type_name(value),
                       source |-> source, is_null |-> value = NONE]),
     call |-> "log_field"]

(* clear_logs *)
clear_logs(p) == [parsed_fields |-> <<>>, field_log |-> <<>>, call |-> "clear_logs"]

(* ---- FileManager.safe_move_file ---- *)
(* a file name: the stem as the list of its parts joined by "_", and *)
(* the suffix                                                        *)
MoveNames ==
    {[stem |-> <<"a">>, suffix |-> ".html"], [stem |-> <<"a", 1>>, suffix |-> ".html"],
     [stem |-> <<"a", 2>>, suffix |-> ".html"], [stem |-> <<"a">>, suffix |-> ".pdf"]}

MoveContents == {"x", "y"}

NoCall == [source |-> NONE, destination |-> NONE, result |-> NONE]

(* both directories empty, safe_move_file not called *)
Dirs0 == [source |-> <<>>, target |-> <<>>, call |-> NoCall]

(* f"{base_name}_{counter}{extension}" next to destination *)
new_name(destination, counter) ==
    [stem |-> Append(destination.stem, counter), suffix |-> destination.suffix]

(* the while loop: the first counter from the given one whose name is free *)
RECURSIVE free_counter(_, _, _)
free_counter(target, destination, counter) ==
    IF new_name(destination, counter) \notin DOMAIN target THEN counter
    ELSE free_counter(target, destination, counter + 1)

(* the destination after the collision handling *)
free_destination(target, destination) ==
    IF destination \in DOMAIN target
    THEN new_name(destination, free_counter(target, destination, 1))
    ELSE destination

(* variant: shutil.move straight to the destination *)
safe_move_file_overwriting(d, source, destination, fail) ==
    IF source \notin DOMAIN d.source \/ fail
    THEN [d EXCEPT !.call = [source |-> source, destination |-> destination,
                             result |-> "False"]]
    ELSE [source |-> [n \in DOMAIN d.source \ {source} |-> d.source[n]],
          target |-> (destination :> d.source[source]) @@ d.target,
          call |-> [source |-> source, destination |-> destination, result |-> "True"]]

(* safe_move_file: the directories after the call and what it returned; *)
(* fail: shutil.move raises (also when the source does not exist), the  *)
(* except branch returns False                                          *)
safe_move_file(d, source, destination, fail) ==
    IF source \notin DOMAIN d.source \/ fail
    THEN [d EXCEPT !.call = [source |-> source, destination |-> destination,
                             result |-> "False"]]
    ELSE [source |-> [n \in DOMAIN d.source \ {source} |-> d.source[n]],
          target |-> (free_destination(d.target, destination) :> d.source[source])
                         @@ d.target,
          call |-> [source |-> source, destination |-> destination, result |-> "True"]]

Last0 ==
    [run |-> 0, result |-> "none", readable |-> FALSE, hash_persisted |-> FALSE,
     parser_invoked |-> FALSE, inserted |-> FALSE, moved |-> FALSE,
     logged |-> FALSE, counted |-> {},
     parse_status |-> NONE, filename_hit |-> FALSE, parsed_hit |-> FALSE,
     interrupted |-> FALSE]

B2N(b) == IF b THEN 1 ELSE 0

Fids == 1..Len(files)

InboxFids == { f \in Fids : files[f].loc = "inbox" }

(* the file is at files[f].loc unless a later move replaced it there *)
Present(f) == files[f].present

(* ---- store reads (operations.py); err: the query raised ---- *)
get_report_by_hash(file_hash, err) ==
    IF err THEN {}
    ELSE { i \in 1..Len(reports) : reports[i].file_hash = file_hash }

get_report_by_triple(broker, account, period, err) ==
    IF err THEN {}
    ELSE { i \in 1..Len(reports) :
             /\ reports[i].broker = broker
             /\ reports[i].account = account
             /\ reports[i].period = period }

is_exact_duplicate(file_hash, err) == get_report_by_hash(file_hash, err) # {}

is_semantic_duplicate(broker, account, period, parsed_data, err) ==
    IF parsed_data.ok
    THEN get_report_by_triple(broker, parsed_data.account_number,
                              Prefix7(parsed_data.period_start), err) # {}
    ELSE get_report_by_triple(broker, account, period, err) # {}

(* ---- store writes ---- *)
(* the audit writes (log_import_file, log_import_operation and            *)
(* log_import_event) report no failure to their callers; they are taken   *)
(* to succeed                                                             *)
ImportLogRow(f, status, broker, account, period) ==
    [fid |-> f, broker |-> broker, account |-> account, period |-> period,
     file_name |-> files[f].name, file_hash |-> ctx.file_hash, status |-> status,
     files_processed |-> 1,
     files_success |-> IF status = "success" THEN 1 ELSE 0,
     files_failed |-> IF status \in {"failure", "duplicate_detected", "collision_mismatch"}
                      THEN 1 ELSE 0]

log_import_file(f, status, broker, account, period) ==
    Append(import_log, ImportLogRow(f, status, broker, account, period))

log_import_operation ==
    Append(import_log,
           [fid |-> 0, broker |-> NONE, account |-> NONE, period |-> NONE,
            file_name |-> <<>>, file_hash |-> NONE, status |-> NONE,
            files_processed |-> stats.files_processed,
            files_success |-> stats.files_success,
            files_failed |-> stats.files_failed])

log_import_event(log, f, event_type) ==
    Append(log, [fid |-> f, run |-> runs, filename |-> files[f].name, event_type |-> event_type])

(* ---- filesystem: Path.rename(target) ---- *)
TargetExists(f, dir) ==
    \E g \in Fids :
        g # f /\ Present(g) /\ files[g].loc = dir /\ files[g].name = files[f].name

Renamed(f, dir) ==
    [g \in Fids |->
        IF g = f THEN [files[g] EXCEPT !.loc = dir]
        ELSE IF files[g].loc = dir /\ files[g].name = files[f].name
             THEN [files[g] EXCEPT !.present = FALSE]
             ELSE files[g]]

(* the move may fail with an I/O error, or, where the platform refuses to *)
(* replace an existing target, because the target name is taken           *)
RenameMayFail(f, dir) == faults < MaxFaults \/ TargetExists(f, dir)

RenameFaults(f, dir, fail) ==
    IF fail /\ ~TargetExists(f, dir) THEN faults + 1 ELSE faults

Init ==
    /\ files = <<>>
    /\ reports = <<>>
    /\ import_log = <<>>
    /\ events = <<>>
    /\ stats = Stats0
    /\ files_info = <<>>
    /\ queue = <<>>
    /\ cur = 0
    /\ pc = "idle"
    /\ ctx = Ctx0
    /\ runs = 0
    /\ faults = 0
    /\ last = <<>>
    /\ dropped = 0
    /\ dry_run = FALSE
    /\ success = NONE
    /\ registry = PARSER_REGISTRY
    /\ ret = Ret0
    /\ other = Other0
    /\ parser = Parser0
    /\ dirs = Dirs0

(* a file is dropped into the inbox between two runs *)
Arrive ==
    /\ pc = "idle"
    /\ UNCHANGED <<registry, ret, other, parser, dirs>>
    /\ Len(files) < MaxFiles
    /\ \E k \in (dropped + 1)..Len(Candidates) :
         /\ \A f \in InboxFids : files[f].name # Candidates[k].name
         /\ files' = Append(files, [name |-> Candidates[k].name,
                                    text |-> Candidates[k].text,
                                    loc |-> "inbox", present |-> TRUE])
         /\ last' = Append(last, Last0)
         /\ dropped' = k
    /\ UNCHANGED <<reports, import_log, events, stats, files_info, queue, cur, pc, ctx, runs, faults>>
    /\ UNCHANGED <<dry_run, success>>

Perms(S) ==
    { q \in [1..Cardinality(S) -> S] : \A i, j \in 1..Cardinality(S) : i # j => q[i] # q[j] }

(* import_reports up to the loop: a fresh importer scans the inbox *)
StartRun ==
    /\ pc = "idle"
    /\ UNCHANGED <<registry, ret, other, parser, dirs>>
    /\ runs < MaxRuns
    /\ runs' = runs + 1
    /\ stats' = Stats0
    /\ \E q \in Perms(InboxFids) :
         /\ files_info' = q
         /\ queue' = q
    /\ pc' = IF InboxFids = {} THEN "idle" ELSE "loop"
    /\ dropped' = 0
    /\ dry_run' = FALSE
    /\ success' = IF InboxFids = {} THEN TRUE ELSE NONE
    /\ UNCHANGED <<files, reports, import_log, events, cur, ctx, faults, last>>

(* import_reports(dry_run=True) of a fresh importer: scan the inbox, read *)
(* and name each file, return True (at once when the inbox is empty).     *)
(* The order of the scan shows in the printed lines alone; it is taken    *)
(* ascending.                                                             *)
ScanOrder(S) ==
    CHOOSE q \in Perms(S) : \A i, j \in 1..Cardinality(S) : i < j => q[i] < q[j]

(* variant: the dry run writes the aggregate import_log row *)
DryRun_logs_operation ==
    /\ pc = "idle"
    /\ UNCHANGED <<registry, ret, other, parser, dirs>>
    /\ stats' = Stats0
    /\ files_info' = ScanOrder(InboxFids)
    /\ queue' = <<>>
    /\ dry_run' = TRUE
    /\ success' = TRUE
    /\ import_log' = log_import_operation
    /\ UNCHANGED <<files, reports, events, cur, pc, ctx, runs, faults, last, dropped>>

DryRun ==
    /\ pc = "idle"
    /\ UNCHANGED <<registry, ret, other, parser, dirs>>
    /\ stats' = Stats0
    /\ files_info' = ScanOrder(InboxFids)
    /\ queue' = <<>>
    /\ dry_run' = TRUE
    /\ success' = TRUE
    /\ UNCHANGED <<files, reports, import_log, events, cur, pc, ctx, runs, faults, last, dropped>>

(* loop head of import_reports: next file, or the aggregate log row *)
NextFile ==
    /\ pc = "loop"
    /\ UNCHANGED <<registry, ret, other, parser, dirs>>
    /\ queue # <<>>
    /\ cur' = Head(queue)
    /\ queue' = Tail(queue)
    /\ pc' = "stage1"
    /\ ctx' = Ctx0
    /\ last' = [last EXCEPT ![Head(queue)] =
                    [Last0 EXCEPT !.run = runs, !.interrupted = last[Head(queue)].interrupted]]
    /\ UNCHANGED <<files, reports, import_log, events, stats, files_info, runs, faults, dropped>>
    /\ UNCHANGED <<dry_run, success>>

(* return True *)
import_reports_returns == TRUE

FinishRun ==
    /\ pc = "loop"
    /\ UNCHANGED <<registry, ret, other, parser, dirs>>
    /\ queue = <<>>
    /\ import_log' = log_import_operation
    /\ pc' = "idle"
    /\ success' = import_reports_returns
    /\ UNCHANGED <<files, reports, events, stats, files_info, queue, cur, ctx, runs, faults, last, dropped, dry_run>>

(* main: sys.exit(0 if success else 1) *)
exit_status == IF success = TRUE THEN 0 ELSE 1

(* variant: a call that counted a failure ends the loop *)
Return_aborts_on_failure(st) ==
    /\ stats' = [st EXCEPT !.files_processed = @ + 1]
    /\ pc' = "loop"
    /\ cur' = 0
    /\ ctx' = Ctx0
    /\ queue' = IF st.files_failed > stats.files_failed THEN <<>> ELSE queue
    /\ UNCHANGED <<dry_run, success>>

(* return from process_file_enhanced into the loop of import_reports *)
Return(st) ==
    /\ stats' = [st EXCEPT !.files_processed = @ + 1]
    /\ pc' = "loop"
    /\ cur' = 0
    /\ ctx' = Ctx0
    /\ UNCHANGED <<queue, dry_run, success>>


Note(f, upd) == [last EXCEPT ![f] = upd @@ @]

(* STAGE 1: read the content, hash it, look the hash up *)
Stage1 ==
    /\ pc = "stage1"
    /\ UNCHANGED <<registry, ret, other, parser, dirs>>
    /\ \E read_fail, hash_err \in BOOLEAN :
         /\ ~(read_fail /\ hash_err)
         \* a failed query differs from an empty answer only when a row matches
         /\ hash_err => get_report_by_hash(sha256(files[cur].text), FALSE) # {}
         /\ faults + B2N(read_fail) + B2N(hash_err) <= MaxFaults
         /\ faults' = faults + B2N(read_fail) + B2N(hash_err)
         /\ IF read_fail
            THEN /\ Return([stats EXCEPT !.files_failed = @ + 1])
                 /\ last' = Note(cur, [result |-> "unreadable", counted |-> {"files_failed"}])
            ELSE /\ ctx' = [ctx EXCEPT !.file_hash = sha256(files[cur].text)]
                 /\ pc' = IF is_exact_duplicate(sha256(files[cur].text), hash_err)
                          THEN "exact_move" ELSE "stage2"
                 /\ last' = Note(cur, [readable |-> TRUE,
                                       hash_persisted |->
                                           get_report_by_hash(sha256(files[cur].text), FALSE) # {}])
                 /\ UNCHANGED <<stats, cur, queue, dry_run, success>>
    /\ UNCHANGED <<files, reports, import_log, events, files_info, runs, dropped>>

(* step 7: the period and account used from here on *)
period_mismatch(period, parsed_data) ==
    parsed_data.ok /\ period # Prefix7(parsed_data.period_start)

(* variant: the filename period is kept *)
reconciled_period_from_filename(period, parsed_data) == period

reconciled_period(period, parsed_data) ==
    IF period_mismatch(period, parsed_data) THEN Prefix7(parsed_data.period_start) ELSE period

reconciled_account(account, period, parsed_data) ==
    IF period_mismatch(period, parsed_data) THEN parsed_data.account_number ELSE account

(* variant: a hit of the lookup by filename metadata diverts as well *)
semantic_hit_diverts_on_filename(is_semantic_filename, is_semantic_parsed) ==
    is_semantic_filename \/ is_semantic_parsed

(* if is_semantic_parsed: the result of step 5 is not consulted *)
semantic_hit_diverts(is_semantic_filename, is_semantic_parsed) ==
    is_semantic_parsed

(* STAGES 2 and 3: classify, look the filename triple up (step 5), parse, *)
(* reconcile the period, semantic check; out is what the parser did.      *)
(* Everything the step does but the history it leaves in last.            *)
Stage2Core(out) ==
    /\ pc = "stage2"
    /\ UNCHANGED <<registry, ret, other, parser, dirs>>
    /\ LET name == files[cur].name
           broker == detect_broker_tiered(name, files[cur].text)
           period == extract_period_from_filename(name)
           account == extract_account_from_filename(name)
           is_semantic_filename == is_semantic_duplicate(broker, account, period, NoData, FALSE)
           parsed_data == parse_file_content(broker, files[cur].text, out)[1]
           parse_status == parse_file_content(broker, files[cur].text, out)[2]
           st == IF broker = "unknown" THEN [stats EXCEPT !.unknown_broker = @ + 1] ELSE stats
       IN  IF parse_status = "no_parser_found"
           THEN /\ ctx' = [ctx EXCEPT !.broker = broker, !.account = account, !.period = period]
                /\ pc' = "unrec_move"
                /\ stats' = st
                /\ UNCHANGED <<events, cur, faults, queue, dry_run, success>>
           ELSE IF parsed_data.ok /\ parsed_data.period_start = NONE
           THEN \* parsed_data['period_start'][:7] raises TypeError: outer except
                /\ Return([st EXCEPT !.files_failed = @ + 1, !.errors = @ + 1])
                /\ UNCHANGED <<events, faults>>
           ELSE \E triple_err \in BOOLEAN :
                /\ faults + B2N(triple_err) <= MaxFaults
                /\ triple_err => is_semantic_duplicate(broker,
                                      reconciled_account(account, period, parsed_data),
                                      reconciled_period(period, parsed_data),
                                      parsed_data, FALSE)
                /\ faults' = faults + B2N(triple_err)
                /\ events' = IF period_mismatch(period, parsed_data)
                             THEN log_import_event(events, cur, "period_mismatch")
                             ELSE events
                /\ ctx' = [ctx EXCEPT !.broker = broker,
                                      !.account = reconciled_account(account, period, parsed_data),
                                      !.period = reconciled_period(period, parsed_data),
                                      !.parsed_data = parsed_data]
                /\ pc' = IF semantic_hit_diverts(is_semantic_filename,
                              is_semantic_duplicate(broker,
                                                    reconciled_account(account, period, parsed_data),
                                                    reconciled_period(period, parsed_data),
                                                    parsed_data, triple_err))
                         THEN "sem_move" ELSE "insert"
                /\ stats' = st
                /\ UNCHANGED <<cur, queue, dry_run, success>>
    /\ UNCHANGED <<files, reports, import_log, files_info, runs, dropped>>

(* the history of the step: the parse status, whether the filename triple *)
(* and the parsed triple are stored, whether the step ended the call      *)
Stage2Note(out) ==
    LET name == files[cur].name
        broker == detect_broker_tiered(name, files[cur].text)
        period == extract_period_from_filename(name)
        account == extract_account_from_filename(name)
        parsed_data == parse_file_content(broker, files[cur].text, out)[1]
        parse_status == parse_file_content(broker, files[cur].text, out)[2]
        hits == [parse_status |-> parse_status,
                 filename_hit |-> get_report_by_triple(broker, account, period, FALSE) # {},
                 parsed_hit |-> /\ parsed_data.ok
                                /\ parsed_data.period_start # NONE
                                /\ get_report_by_triple(broker, parsed_data.account_number,
                                       Prefix7(parsed_data.period_start), FALSE) # {}]
    IN  IF parse_status = "no_parser_found" THEN Note(cur, hits)
        ELSE IF parsed_data.ok /\ parsed_data.period_start = NONE
        THEN Note(cur, [result |-> "exception", parser_invoked |-> TRUE,
                        counted |-> {"files_failed"}] @@ hits)
        ELSE Note(cur, [parser_invoked |-> TRUE] @@ hits)

Stage2 ==
    /\ pc = "stage2"
    /\ UNCHANGED <<registry, ret, other, parser, dirs>>
    /\ \E out \in parser_outcomes(detect_broker_tiered(files[cur].name, files[cur].text),
                                  files[cur].text) :
         /\ Stage2Core(out)
         /\ last' = Stage2Note(out)

(* move_to_duplicate_archive; its result is ignored by the caller *)
(* variant: after the move of a duplicate the file goes on to STAGE 2 *)
move_to_duplicate_archive_continues(duplicate_type, to) ==
    \E fail \in BOOLEAN :
       /\ fail => RenameMayFail(cur, duplicate_type)
       /\ faults' = RenameFaults(cur, duplicate_type, fail)
       /\ files' = IF fail THEN files ELSE Renamed(cur, duplicate_type)
       /\ events' = IF fail THEN events ELSE log_import_event(events, cur, duplicate_type)
       /\ last' = Note(cur, [moved |-> ~fail])
       /\ pc' = "stage2"
       /\ UNCHANGED <<reports, import_log, stats, files_info, queue, cur, ctx, runs, dropped>>
       /\ UNCHANGED <<dry_run, success>>

move_to_duplicate_archive(duplicate_type, to) ==
    \E fail \in BOOLEAN :
       /\ fail => RenameMayFail(cur, duplicate_type)
       /\ faults' = RenameFaults(cur, duplicate_type, fail)
       /\ files' = IF fail THEN files ELSE Renamed(cur, duplicate_type)
       /\ events' = IF fail THEN events ELSE log_import_event(events, cur, duplicate_type)
       /\ last' = Note(cur, [moved |-> ~fail])
       /\ pc' = to
       /\ UNCHANGED <<reports, import_log, stats, files_info, queue, cur, ctx, runs, dropped>>
       /\ UNCHANGED <<dry_run, success>>

ExactMove ==
    /\ pc = "exact_move"
    /\ UNCHANGED <<registry, ret, other, parser, dirs>>
    /\ move_to_duplicate_archive("exact_duplicates", "exact_log")

ExactLog ==
    /\ pc = "exact_log"
    /\ UNCHANGED <<registry, ret, other, parser, dirs>>
    /\ import_log' = log_import_file(cur, "duplicate_detected", "unknown", NONE, NONE)
    /\ events' = log_import_event(events, cur, "exact_duplicate")
    /\ Return([stats EXCEPT !.files_skipped = @ + 1])
    /\ last' = Note(cur, [result |-> "exact_duplicate", logged |-> TRUE,
                          counted |-> {"files_skipped"}])
    /\ UNCHANGED <<files, reports, files_info, runs, faults, dropped>>

SemMove ==
    /\ pc = "sem_move"
    /\ UNCHANGED <<registry, ret, other, parser, dirs>>
    /\ move_to_duplicate_archive("logical_duplicates", "sem_log")

SemLog ==
    /\ pc = "sem_log"
    /\ UNCHANGED <<registry, ret, other, parser, dirs>>
    /\ import_log' = log_import_file(cur, "collision_mismatch", ctx.broker, ctx.account, ctx.period)
    /\ events' = log_import_event(events, cur, "semantic_duplicate")
    /\ Return([stats EXCEPT !.files_skipped = @ + 1])
    /\ last' = Note(cur, [result |-> "semantic_duplicate", logged |-> TRUE,
                          counted |-> {"files_skipped"}])
    /\ UNCHANGED <<files, reports, files_info, runs, faults, dropped>>

(* no parser: rename into unrecognized/, then the log rows *)
UnrecMove ==
    /\ pc = "unrec_move"
    /\ UNCHANGED <<registry, ret, other, parser, dirs>>
    /\ \E fail \in BOOLEAN :
         /\ fail => RenameMayFail(cur, "unrecognized")
         /\ faults' = RenameFaults(cur, "unrecognized", fail)
         /\ IF fail
            THEN /\ Return([stats EXCEPT !.files_failed = @ + 1])
                 /\ last' = Note(cur, [result |-> "archive_failed", counted |-> {"files_failed"}])
                 /\ UNCHANGED files
            ELSE /\ files' = Renamed(cur, "unrecognized")
                 /\ pc' = "unrec_log"
                 /\ last' = Note(cur, [moved |-> TRUE])
                 /\ UNCHANGED <<stats, cur, ctx, queue, dry_run, success>>
    /\ UNCHANGED <<reports, import_log, events, files_info, runs, dropped>>

UnrecLog ==
    /\ pc = "unrec_log"
    /\ UNCHANGED <<registry, ret, other, parser, dirs>>
    /\ import_log' = log_import_file(cur, "skipped", ctx.broker, ctx.account, ctx.period)
    /\ events' = log_import_event(events, cur, "no_parser_found")
    /\ Return([stats EXCEPT !.files_skipped = @ + 1])
    /\ last' = Note(cur, [result |-> "no_parser_found", logged |-> TRUE,
                          counted |-> {"files_skipped"}])
    /\ UNCHANGED <<files, reports, files_info, runs, faults, dropped>>

(* variant: the row carries the period of the file name *)
ReportRow_filename_period(f, status) ==
    [fid |-> f, broker |-> ctx.broker, account |-> ctx.account,
     period |-> extract_period_from_filename(files[f].name),
     file_name |-> files[f].name, file_hash |-> ctx.file_hash,
     processing_status |-> status, has_parsed_data |-> status = "parsed"]

(* the row of insert_report, as update_report_parsed_data leaves it when *)
(* there is parsed data                                                  *)
ReportRow(f, status) ==
    [fid |-> f, broker |-> ctx.broker, account |-> ctx.account, period |-> ctx.period,
     file_name |-> files[f].name, file_hash |-> ctx.file_hash,
     processing_status |-> status, has_parsed_data |-> status = "parsed"]

(* core/database/schema.sql is not among the sources.  The table is taken *)
(* as the specification describes the design: uniqueness rests on the     *)
(* two pre-check queries, the table itself rejects no row for its hash or *)
(* its triple.  (Any other failure of the INSERT is the input fail.)      *)
broker_reports_rejects(row) == FALSE

(* variant: the row is committed although the call reports a failure *)
insert_report_commits_on_failure(f, status, fail) ==
    Append(reports, ReportRow(f, status))

(* variant: the INSERT stores nothing when the hash is already stored *)
insert_report_if_absent(f, status, fail) ==
    IF fail \/ get_report_by_hash(ReportRow(f, status).file_hash, FALSE) # {}
    THEN reports
    ELSE Append(reports, ReportRow(f, status))

insert_report(f, status, fail) ==
    IF fail \/ broker_reports_rejects(ReportRow(f, status))
    THEN reports
    ELSE Append(reports, ReportRow(f, status))

(* STAGE 4: insert, count, log *)
Insert ==
    /\ pc = "insert"
    /\ UNCHANGED <<registry, ret, other, parser, dirs>>
    /\ \E insert_fail, update_fail \in BOOLEAN :
         /\ update_fail => (~insert_fail /\ ctx.parsed_data.ok)
         /\ faults + B2N(insert_fail) + B2N(update_fail) <= MaxFaults
         /\ faults' = faults + B2N(insert_fail) + B2N(update_fail)
         /\ reports' = insert_report(cur,
                                     IF ctx.parsed_data.ok /\ ~update_fail THEN "parsed" ELSE "raw",
                                     insert_fail)
         /\ IF insert_fail
            THEN /\ import_log' = log_import_file(cur, "failure", ctx.broker, ctx.account, ctx.period)
                 /\ Return([stats EXCEPT !.files_failed = @ + 1])
                 /\ last' = Note(cur, [result |-> "insert_failed", logged |-> TRUE,
                                       counted |-> {"files_failed"}])
                 /\ UNCHANGED events
            ELSE /\ import_log' = log_import_file(cur, "success", ctx.broker, ctx.account, ctx.period)
                 /\ events' = log_import_event(events, cur, "imported")
                 /\ stats' = [stats EXCEPT !.files_success = @ + 1]
                 /\ pc' = "imp_move"
                 /\ last' = Note(cur, [inserted |-> TRUE, logged |-> TRUE,
                                       counted |-> {"files_success"}])
                 /\ UNCHANGED <<cur, ctx, queue, dry_run, success>>
    /\ UNCHANGED <<files, files_info, runs, dropped>>

(* step 10: rename into imported/ *)
ImportedMove ==
    /\ pc = "imp_move"
    /\ UNCHANGED <<registry, ret, other, parser, dirs>>
    /\ \E fail \in BOOLEAN :
         /\ fail => RenameMayFail(cur, "imported")
         /\ faults' = RenameFaults(cur, "imported", fail)
         /\ IF fail
            THEN /\ Return([stats EXCEPT !.files_failed = @ + 1])
                 /\ last' = Note(cur, [result |-> "archive_failed",
                                       counted |-> {"files_success", "files_failed"}])
                 /\ UNCHANGED files
            ELSE /\ files' = Renamed(cur, "imported")
                 /\ Return(stats)
                 /\ last' = Note(cur, [result |-> "imported", moved |-> TRUE])
    /\ UNCHANGED <<reports, import_log, events, files_info, runs, dropped>>

Next ==
    \/ Arrive
    \/ StartRun
    \/ DryRun
    \/ NextFile
    \/ FinishRun
    \/ Stage1
    \/ Stage2
    \/ ExactMove
    \/ ExactLog
    \/ SemMove
    \/ SemLog
    \/ UnrecMove
    \/ UnrecLog
    \/ Insert
    \/ ImportedMove

Spec == Init /\ [][Next]_vars

(* ---- two importer processes on one store ---- *)
(* The first process is the importer of the actions above, working on   *)
(* the inbox.  The second runs import_reports(source=...) on another    *)
(* directory holding one file; its steps are those of                   *)
(* process_file_enhanced on its own locals (other.ctx), without I/O or  *)
(* store errors.                                                        *)
InitRace ==
    /\ \E k1, k2 \in 1..Len(Candidates) :
         files = <<[name |-> Candidates[k1].name, text |-> Candidates[k1].text,
                    loc |-> "inbox", present |-> TRUE],
                   [name |-> Candidates[k2].name, text |-> Candidates[k2].text,
                    loc |-> "source", present |-> TRUE]>>
    /\ last = <<Last0, Last0>>
    /\ reports = <<>>
    /\ import_log = <<>>
    /\ events = <<>>
    /\ stats = Stats0
    /\ files_info = <<>>
    /\ queue = <<>>
    /\ cur = 0
    /\ pc = "idle"
    /\ ctx = Ctx0
    /\ runs = 0
    /\ faults = 0
    /\ dropped = 0
    /\ dry_run = FALSE
    /\ success = NONE
    /\ registry = PARSER_REGISTRY
    /\ ret = Ret0
    /\ other = [Other0 EXCEPT !.pc = "stage1", !.fid = 2]
    /\ parser = Parser0
    /\ dirs = Dirs0

(* STAGE 1 of the second process: hash, exact-duplicate check *)
OtherStage1 ==
    /\ other.pc = "stage1"
    /\ LET file_hash == sha256(files[other.fid].text)
       IN  other' = [other EXCEPT !.ctx.file_hash = file_hash,
                                  !.pc = IF is_exact_duplicate(file_hash, FALSE)
                                         THEN "move" ELSE "stage2",
                                  !.result = IF is_exact_duplicate(file_hash, FALSE)
                                             THEN "exact_duplicate" ELSE "none"]
    /\ UNCHANGED <<files, reports, import_log, events, stats, files_info, queue, cur, pc,
                   ctx, runs, faults, last, dropped, dry_run, success, registry, ret, parser, dirs>>

(* STAGES 2 and 3 of the second process: classify, parse, reconcile, *)
(* semantic check                                                    *)
OtherStage2 ==
    /\ other.pc = "stage2"
    /\ LET name == files[other.fid].name
           t == files[other.fid].text
           broker == detect_broker_tiered(name, t)
           period == extract_period_from_filename(name)
           account == extract_account_from_filename(name)
       IN  \E out \in parser_outcomes(broker, t) :
             LET parsed_data == parse_file_content(broker, t, out)[1]
                 parse_status == parse_file_content(broker, t, out)[2]
             IN  IF parse_status = "no_parser_found"
                 THEN /\ other' = [other EXCEPT !.ctx.broker = broker, !.ctx.account = account,
                                                !.ctx.period = period, !.pc = "move",
                                                !.result = "no_parser_found"]
                      /\ UNCHANGED events
                 ELSE IF parsed_data.ok /\ parsed_data.period_start = NONE
                 THEN /\ other' = [other EXCEPT !.pc = "done", !.result = "exception"]
                      /\ UNCHANGED events
                 ELSE /\ events' = IF period_mismatch(period, parsed_data)
                                   THEN log_import_event(events, other.fid, "period_mismatch")
                                   ELSE events
                      /\ other' =
                           [other EXCEPT
                              !.ctx.broker = broker,
                              !.ctx.account = reconciled_account(account, period, parsed_data),
                              !.ctx.period = reconciled_period(period, parsed_data),
                              !.ctx.parsed_data = parsed_data,
                              !.pc = IF semantic_hit_diverts(
                                          is_semantic_duplicate(broker, account, period,
                                                                NoData, FALSE),
                                          is_semantic_duplicate(broker,
                                              reconciled_account(account, period, parsed_data),
                                              reconciled_period(period, parsed_data),
                                              parsed_data, FALSE))
                                     THEN "move" ELSE "insert",
                              !.result = IF semantic_hit_diverts(
                                              is_semantic_duplicate(broker, account, period,
                                                                    NoData, FALSE),
                                              is_semantic_duplicate(broker,
                                                  reconciled_account(account, period, parsed_data),
                                                  reconciled_period(period, parsed_data),
                                                  parsed_data, FALSE))
                                         THEN "semantic_duplicate" ELSE "none"]
    /\ UNCHANGED <<files, reports, import_log, stats, files_info, queue, cur, pc,
                   ctx, runs, faults, last, dropped, dry_run, success, registry, ret, parser, dirs>>

(* the row the second process inserts *)
OtherRow ==
    [fid |-> other.fid, broker |-> other.ctx.broker, account |-> other.ctx.account,
     period |-> other.ctx.period, file_name |-> files[other.fid].name,
     file_hash |-> other.ctx.file_hash,
     processing_status |-> IF other.ctx.parsed_data.ok THEN "parsed" ELSE "raw",
     has_parsed_data |-> other.ctx.parsed_data.ok]

(* the import_log row the second process writes for its file *)
OtherLogRow(status) ==
    [fid |-> other.fid, broker |-> other.ctx.broker, account |-> other.ctx.account,
     period |-> other.ctx.period, file_name |-> files[other.fid].name,
     file_hash |-> other.ctx.file_hash, status |-> status,
     files_processed |-> 1,
     files_success |-> IF status = "success" THEN 1 ELSE 0,
     files_failed |-> IF status \in {"failure", "duplicate_detected", "collision_mismatch"}
                      THEN 1 ELSE 0]

(* STAGE 4 of the second process: the insert is not preceded by a second *)
(* look at the store                                                     *)
OtherInsert ==
    /\ other.pc = "insert"
    /\ reports' = IF broker_reports_rejects(OtherRow) THEN reports
                  ELSE Append(reports, OtherRow)
    /\ import_log' = Append(import_log, OtherLogRow("success"))
    /\ events' = log_import_event(events, other.fid, "imported")
    /\ other' = [other EXCEPT !.pc = "move", !.result = "imported"]
    /\ UNCHANGED <<files, stats, files_info, queue, cur, pc, ctx, runs, faults, last,
                   dropped, dry_run, success, registry, ret, parser, dirs>>

(* where the second process archives its file *)
OtherArchive ==
    CASE other.result = "imported" -> "imported"
      [] other.result = "exact_duplicate" -> "exact_duplicates"
      [] other.result = "semantic_duplicate" -> "logical_duplicates"
      [] other.result = "no_parser_found" -> "unrecognized"

(* the second process archives its file and, for a diverted file, writes *)
(* the log rows                                                          *)
OtherMove ==
    /\ other.pc = "move"
    /\ files' = Renamed(other.fid, OtherArchive)
    /\ import_log' =
          CASE other.result = "imported" -> import_log
            [] other.result = "exact_duplicate" ->
                 Append(import_log, [OtherLogRow("duplicate_detected") EXCEPT
                                        !.broker = "unknown", !.account = NONE, !.period = NONE])
            [] other.result = "semantic_duplicate" ->
                 Append(import_log, OtherLogRow("collision_mismatch"))
            [] other.result = "no_parser_found" ->
                 Append(import_log, OtherLogRow("skipped"))
    /\ events' =
          CASE other.result = "imported" -> events
            [] other.result = "exact_duplicate" ->
                 log_import_event(log_import_event(events, other.fid, "exact_duplicates"),
                                  other.fid, "exact_duplicate")
            [] other.result = "semantic_duplicate" ->
                 log_import_event(log_import_event(events, other.fid, "logical_duplicates"),
                                  other.fid, "semantic_duplicate")
            [] other.result = "no_parser_found" ->
                 log_import_event(events, other.fid, "no_parser_found")
    /\ other' = [other EXCEPT !.pc = "done"]
    /\ UNCHANGED <<reports, stats, files_info, queue, cur, pc, ctx, runs, faults, last,
                   dropped, dry_run, success, registry, ret, parser, dirs>>

NextRace ==
    \/ StartRun
    \/ NextFile
    \/ FinishRun
    \/ Stage1
    \/ Stage2
    \/ ExactMove
    \/ ExactLog
    \/ SemMove
    \/ SemLog
    \/ UnrecMove
    \/ UnrecLog
    \/ Insert
    \/ ImportedMove
    \/ OtherStage1
    \/ OtherStage2
    \/ OtherInsert
    \/ OtherMove

SpecRace == InitRace /\ [][NextRace]_vars

(* ---- runs that may be killed ---- *)
InitCrash == Init

(* the importer process is killed while it processes a file: its locals *)
(* and the rest of its loop are gone, nothing is returned; the store    *)
(* and the directories stay as they are                                 *)
Kill ==
    /\ pc \notin {"idle", "loop"}
    /\ cur # 0
    /\ Cardinality({ f \in Fids : last[f].interrupted }) < MaxKills
    /\ pc' = "idle"
    /\ cur' = 0
    /\ ctx' = Ctx0
    /\ queue' = <<>>
    /\ success' = NONE
    /\ last' = Note(cur, [interrupted |-> TRUE])
    /\ UNCHANGED <<files, reports, import_log, events, stats, files_info, runs, faults,
                   dropped, dry_run, registry, ret, other, parser, dirs>>

NextCrash ==
    \/ Next
    \/ Kill

SpecCrash == InitCrash /\ [][NextCrash]_vars

(* ---- a Sber file in the inbox, named with or without a period ---- *)
PeriodNames ==
    { <<"sber">>, <<"sber", "2023">>, <<"sber", "2023", "07">>, <<"sber", "2023", "09">>,
      <<"sber", "2023-07">>, <<"sber", "2023-08">>, <<"sber", "S000T49", "2023-07">> }

PeriodTexts == {"t1", "t3", "t5"}

(* what else may lie in the inbox: nothing, or one of two files named *)
(* without a broker                                                  *)
PeriodCompanions == {<<>>, <<Candidates[3]>>, <<Candidates[7]>>}

InitPeriod ==
    /\ \E n \in PeriodNames, t \in PeriodTexts, c \in PeriodCompanions :
         files = <<[name |-> n, text |-> t, loc |-> "inbox", present |-> TRUE]>> \o
                 [i \in 1..Len(c) |-> [name |-> c[i].name, text |-> c[i].text,
                                       loc |-> "inbox", present |-> TRUE]]
    /\ last = [f \in 1..Len(files) |-> Last0]
    /\ reports = <<>>
    /\ import_log = <<>>
    /\ events = <<>>
    /\ stats = Stats0
    /\ files_info = <<>>
    /\ queue = <<>>
    /\ cur = 0
    /\ pc = "idle"
    /\ ctx = Ctx0
    /\ runs = 0
    /\ faults = 0
    /\ dropped = 0
    /\ dry_run = FALSE
    /\ success = NONE
    /\ registry = PARSER_REGISTRY
    /\ ret = Ret0
    /\ other = Other0
    /\ parser = Parser0
    /\ dirs = Dirs0

NextPeriod ==
    \/ StartRun
    \/ NextFile
    \/ FinishRun
    \/ Stage1
    \/ Stage2
    \/ ExactMove
    \/ ExactLog
    \/ SemMove
    \/ SemLog
    \/ UnrecMove
    \/ UnrecLog
    \/ Insert
    \/ ImportedMove

SpecPeriod == InitPeriod /\ [][NextPeriod]_vars

(* ---- the life of a report row: imports, parse_reports, reparse ---- *)
InitStatus == Init

(* process_file_enhanced run to its end on a new file that reaches the    *)
(* insert: the row is parsed when there is parsed data and                *)
(* update_report_parsed_data went through, else it stays raw as           *)
(* insert_report wrote it                                                 *)
ImportReport ==
    /\ pc = "idle"
    /\ Len(reports) < MaxReports
    /\ \E k \in 1..Len(Candidates), update_fail \in BOOLEAN :
         LET name == Candidates[k].name
             t == Candidates[k].text
             f == Len(files) + 1
             broker == detect_broker_tiered(name, t)
             period == extract_period_from_filename(name)
             account == extract_account_from_filename(name)
             parsed_data == parse_file_content(broker, t,
                                IF SberParse(t).raises THEN "raises" ELSE "dict")[1]
         IN  /\ ~is_exact_duplicate(sha256(t), FALSE)
             /\ is_broker_supported(broker)
             /\ ~(parsed_data.ok /\ parsed_data.period_start = NONE)
             /\ ~is_semantic_duplicate(broker, reconciled_account(account, period, parsed_data),
                                       reconciled_period(period, parsed_data), parsed_data, FALSE)
             /\ update_fail => parsed_data.ok
             /\ files' = Append(files, [name |-> name, text |-> t, loc |-> "imported",
                                        present |-> TRUE])
             /\ last' = Append(last, Last0)
             /\ reports' = Append(reports,
                   [fid |-> f, broker |-> broker,
                    account |-> reconciled_account(account, period, parsed_data),
                    period |-> reconciled_period(period, parsed_data),
                    file_name |-> name, file_hash |-> sha256(t),
                    processing_status |-> IF parsed_data.ok /\ ~update_fail THEN "parsed" ELSE "raw",
                    has_parsed_data |-> parsed_data.ok /\ ~update_fail])
    /\ UNCHANGED <<import_log, events, stats, files_info, queue, cur, pc, ctx, runs, faults,
                   dropped, dry_run, success, registry, ret, other, parser, dirs>>

(* update_report_status on table reps; parsed_data: a truthy value was *)
(* passed; ok: the UPDATE went through                                 *)
update_report_status(reps, report_id, status, parsed_data, ok) ==
    IF ok
    THEN [reps EXCEPT ![report_id].processing_status = status,
                      ![report_id].has_parsed_data = @ \/ parsed_data]
    ELSE reps

(* variant: the update resets the row to raw *)
update_report_parsed_data_raw(reps, report_id, status, ok) ==
    IF ok
    THEN [reps EXCEPT ![report_id].processing_status = "raw",
                      ![report_id].has_parsed_data = TRUE]
    ELSE reps

(* update_report_parsed_data on table reps *)
update_report_parsed_data(reps, report_id, status, ok) ==
    IF ok
    THEN [reps EXCEPT ![report_id].processing_status = status,
                      ![report_id].has_parsed_data = TRUE]
    ELSE reps

(* the stored html_content of a report (never empty: the pipeline stores *)
(* the content it read)                                                  *)
html_content(reps, report_id) == files[reps[report_id].fid].text

(* parse_single_report: the table after the call *)
parse_single_report(reps, report_id, ok) ==
    LET broker == reps[report_id].broker
    IN  IF broker = "unknown" THEN update_report_status(reps, report_id, "error", FALSE, ok)
        ELSE IF ~is_broker_supported(broker)
        THEN update_report_status(reps, report_id, "error", FALSE, ok)
        ELSE IF SberParse(html_content(reps, report_id)).raises
        THEN update_report_status(reps, report_id, "error", FALSE, ok)
        ELSE update_report_status(reps, report_id, "parsed", TRUE, ok)

(* list_reports(status='raw') *)
RawReports == { i \in 1..Len(reports) : reports[i].processing_status = "raw" }

(* parse_reports.main without --report-id: every raw report in turn; a *)
(* call changes its own row only                                       *)
ParseReports ==
    /\ pc = "idle"
    /\ RawReports # {}
    /\ \E oks \in [RawReports -> BOOLEAN] :
         reports' = [i \in 1..Len(reports) |->
                       IF i \in RawReports
                       THEN parse_single_report(reports, i, oks[i])[i]
                       ELSE reports[i]]
    /\ UNCHANGED <<files, import_log, events, stats, files_info, queue, cur, pc, ctx, runs,
                   faults, last, dropped, dry_run, success, registry, ret, other, parser, dirs>>

(* parse_reports.main --report-id: the report, whatever its status *)
ParseReportId ==
    /\ pc = "idle"
    /\ \E report_id \in 1..Len(reports), ok \in BOOLEAN :
         reports' = parse_single_report(reports, report_id, ok)
    /\ UNCHANGED <<files, import_log, events, stats, files_info, queue, cur, pc, ctx, runs,
                   faults, last, dropped, dry_run, success, registry, ret, other, parser, dirs>>

(* WHERE broker = 'sber' AND parsed_data->>'parser_version' = '2.0' *)
ReparseReports ==
    { i \in 1..Len(reports) : reports[i].broker = "sber" /\ reports[i].has_parsed_data }

(* reparse_sber_reports.main: a report whose content parses gets its *)
(* parsed data replaced; a parse error leaves the row alone          *)
Reparse ==
    /\ pc = "idle"
    /\ ReparseReports # {}
    /\ \E oks \in [ReparseReports -> BOOLEAN] :
         reports' = [i \in 1..Len(reports) |->
                       IF i \in ReparseReports /\ ~SberParse(html_content(reports, i)).raises
                       THEN update_report_parsed_data(reports, i, "parsed", oks[i])[i]
                       ELSE reports[i]]
    /\ UNCHANGED <<files, import_log, events, stats, files_info, queue, cur, pc, ctx, runs,
                   faults, last, dropped, dry_run, success, registry, ret, other, parser, dirs>>

NextStatus ==
    \/ ImportReport
    \/ ParseReports
    \/ ParseReportId
    \/ Reparse

SpecStatus == InitStatus /\ [][NextStatus]_vars

(* ---- the parser registry on its own: calls of its functions ---- *)
InitRegistry == Init

RegisterParser ==
    /\ \E broker \in RegistryBrokers, parser_class \in ParserClasses :
         /\ registry' = register_parser(broker, parser_class)
         /\ ret' = [op |-> "register_parser", broker |-> broker,
                    parser_class |-> parser_class, result |-> NONE]
    /\ UNCHANGED <<files, reports, import_log, events, stats, files_info, queue, cur, pc,
                   ctx, runs, faults, last, dropped, dry_run, success, other, parser, dirs>>

GetParser ==
    /\ \E broker \in RegistryBrokers :
         ret' = [op |-> "get_parser", broker |-> broker,
                 parser_class |-> NONE, result |-> get_parser(broker)]
    /\ UNCHANGED <<files, reports, import_log, events, stats, files_info, queue, cur, pc,
                   ctx, runs, faults, last, dropped, dry_run, success, other, registry, parser, dirs>>

IsBrokerSupported ==
    /\ \E broker \in RegistryBrokers :
         ret' = [op |-> "is_broker_supported", broker |-> broker,
                 parser_class |-> NONE, result |-> is_broker_supported(broker)]
    /\ UNCHANGED <<files, reports, import_log, events, stats, files_info, queue, cur, pc,
                   ctx, runs, faults, last, dropped, dry_run, success, other, registry, parser, dirs>>

NextRegistry ==
    \/ RegisterParser
    \/ GetParser
    \/ IsBrokerSupported

SpecRegistry == InitRegistry /\ [][NextRegistry]_vars

(* ---- detect_broker_tiered on its own: one file name and one content ---- *)
DetectWords == {"sber", "SBER", "tinkoff", "4000T49", "report"}

DetectNames == UNION { [1..n -> DetectWords] : n \in 1..MaxNameLen }

DetectTexts == {"t1", "t5", "t6", "t7"}

InitDetect ==
    /\ \E n \in DetectNames, t \in DetectTexts :
         files = <<[name |-> n, text |-> t, loc |-> "inbox", present |-> TRUE]>>
    /\ last = <<Last0>>
    /\ reports = <<>>
    /\ import_log = <<>>
    /\ events = <<>>
    /\ stats = Stats0
    /\ files_info = <<>>
    /\ queue = <<>>
    /\ cur = 0
    /\ pc = "detect"
    /\ ctx = Ctx0
    /\ runs = 0
    /\ faults = 0
    /\ dropped = 0
    /\ dry_run = FALSE
    /\ success = NONE
    /\ registry = PARSER_REGISTRY
    /\ ret = Ret0
    /\ other = Other0
    /\ parser = Parser0
    /\ dirs = Dirs0

(* broker = detect_broker_tiered(file_path, content, self.broker_patterns) *)
Detect ==
    /\ pc = "detect"
    /\ UNCHANGED <<registry, ret, other, parser, dirs>>
    /\ ctx' = [ctx EXCEPT !.broker = detect_broker_tiered(files[1].name, files[1].text)]
    /\ pc' = "detected"
    /\ UNCHANGED <<files, reports, import_log, events, stats, files_info, queue, cur,
                   runs, faults, last, dropped, dry_run, success>>

NextDetect == Detect

SpecDetect == InitDetect /\ [][NextDetect]_vars

(* ---- a parser instance on its own: calls of log_field and clear_logs ---- *)
InitParserLog == Init

LogField ==
    /\ Len(parser.field_log) < MaxLog
    /\ \E field_name \in LogFields, value \in LogValues, source \in LogSources :
         parser' = log_field(parser, field_name, value, source)
    /\ UNCHANGED <<files, reports, import_log, events, stats, files_info, queue, cur, pc,
                   ctx, runs, faults, last, dropped, dry_run, success, registry, ret,
                   other, dirs>>

ClearLogs ==
    /\ parser' = clear_logs(parser)
    /\ UNCHANGED <<files, reports, import_log, events, stats, files_info, queue, cur, pc,
                   ctx, runs, faults, last, dropped, dry_run, success, registry, ret,
                   other, dirs>>

NextParserLog == LogField \/ ClearLogs

SpecParserLog == InitParserLog /\ [][NextParserLog]_vars

(* ---- safe_move_file on its own: files appear, files are moved ---- *)
InitMove == Init

(* a file is put into one of the two directories by something else *)
Place ==
    /\ Cardinality(DOMAIN dirs.source) + Cardinality(DOMAIN dirs.target) < MaxDirFiles
    /\ \E name \in MoveNames, content \in MoveContents :
         \/ /\ name \notin DOMAIN dirs.source
            /\ dirs' = [dirs EXCEPT !.source = (name :> content) @@ @, !.call = NoCall]
         \/ /\ name \notin DOMAIN dirs.target
            /\ dirs' = [dirs EXCEPT !.target = (name :> content) @@ @, !.call = NoCall]
    /\ UNCHANGED <<files, reports, import_log, events, stats, files_info, queue, cur, pc,
                   ctx, runs, faults, last, dropped, dry_run, success, registry, ret,
                   other, parser>>

(* safe_move_file(source_dir / source, target_dir / destination) *)
SafeMoveFile ==
    /\ \E source \in MoveNames, destination \in MoveNames, fail \in BOOLEAN :
         dirs' = safe_move_file(dirs, source, destination, fail)
    /\ UNCHANGED <<files, reports, import_log, events, stats, files_info, queue, cur, pc,
                   ctx, runs, faults, last, dropped, dry_run, success, registry, ret,
                   other, parser>>

NextMove == Place \/ SafeMoveFile

SpecMove == InitMove /\ [][NextMove]_vars


(* ======================= claims ======================= *)

RunCompleted == pc = "idle" /\ runs > 0 /\ ~dry_run

Discovered == { files_info[i] : i \in 1..Len(files_info) }

(* the audit events written for file f during run r, period_mismatch notices aside *)
ImportEvents(f, r) ==
    { k \in 1..Len(events) :
        /\ events[k].fid = f
        /\ events[k].run = r
        /\ events[k].event_type # "period_mismatch" }

Processed(f) == last[f].result # "none"

(* C1: after any sequence of completed runs, no two persisted reports have *)
(* the same content hash.                                                  *)
C1_HashUnique ==
    pc = "idle" =>
        \A i, j \in 1..Len(reports) :
            i # j => reports[i].file_hash # reports[j].file_hash

(* C2: after any sequence of completed runs, no two persisted reports whose *)
(* broker is not "unknown" have the same (broker, account, period).         *)
C2_TripleUnique ==
    pc = "idle" =>
        \A i, j \in 1..Len(reports) :
            (i # j /\ reports[i].broker # "unknown") =>
                ~ /\ reports[i].broker = reports[j].broker
                  /\ reports[i].account = reports[j].account
                  /\ reports[i].period = reports[j].period

(* C3: when a run completes, exactly one ImportEvent has been recorded for *)
(* every file the run discovered.                                          *)
C3_OneEventPerFile ==
    RunCompleted =>
        \A f \in Discovered : Cardinality(ImportEvents(f, runs)) = 1

(* C4: after a completed run every discovered file is in one of the four   *)
(* archive directories, or is still in the inbox and was counted as failed *)
(* and neither as succeeded nor as skipped.                                *)
C4_ArchivedOrFailed ==
    RunCompleted =>
        \A f \in Discovered :
            \/ files[f].loc \in ArchiveDirs
            \/ /\ files[f].loc = "inbox"
               /\ last[f].counted = {"files_failed"}

(* C5: in no state has a file left the inbox while the store write of its *)
(* outcome (the report insert or its import_log row) is still missing.    *)
C5_MoveAfterStoreWrite ==
    \A f \in Fids :
        last[f].moved => (last[f].inserted \/ last[f].logged)

(* the step of process_file_enhanced in which insert_report returned no id *)
C6_InsertFailureStep ==
    (pc = "insert" /\ pc' = "loop") =>
        /\ reports' = reports
        /\ files' = files
        /\ files[cur].loc = "inbox"
        /\ Len(import_log') = Len(import_log) + 1
        /\ import_log'[Len(import_log')].fid = cur
        /\ import_log'[Len(import_log')].status = "failure"
        /\ stats'.files_failed = stats.files_failed + 1
        /\ stats'.files_success = stats.files_success

C7_NoArchivedFileLost ==
    \A f \in Fids :
        Present(f) \/ \E g \in Fids :
                          /\ Present(g)
                          /\ files[g].loc = files[f].loc
                          /\ files[g].name = files[f].name
                          /\ files[g].text = files[f].text

(* C8: processing a readable file whose content hash is already persisted *)
(* ends as an exact duplicate and inserts no report.                      *)
C8_RerunIsExactDuplicate ==
    \A f \in Fids :
        (Processed(f) /\ last[f].readable /\ last[f].hash_persisted) =>
            /\ last[f].result = "exact_duplicate"
            /\ ~last[f].inserted

(* report i was parsed and its file name gives another period than the parser *)
C9_Mismatch(i) ==
    /\ is_broker_supported(reports[i].broker)
    /\ ~SberParse(files[reports[i].fid].text).raises
    /\ SberParse(files[reports[i].fid].text).period_start # NONE
    /\ extract_period_from_filename(files[reports[i].fid].name)
         # Prefix7(SberParse(files[reports[i].fid].text).period_start)

C10_ExactHitDiverted ==
    \A f \in Fids :
        (Processed(f) /\ last[f].readable /\ last[f].hash_persisted) =>
            /\ files[f].loc = "exact_duplicates"
            /\ \E k \in ImportEvents(f, last[f].run) : events[k].event_type = "exact_duplicate"
            /\ ~last[f].parser_invoked
            /\ ~last[f].inserted

(* C11: a file whose processing ended as a semantic duplicate is in         *)
(* archive/logical_duplicates/, a semantic_duplicate event was recorded for *)
(* it and no report was inserted for it.                                    *)
C11_SemanticHitDiverted ==
    \A f \in Fids :
        last[f].result = "semantic_duplicate" =>
            /\ files[f].loc = "logical_duplicates"
            /\ \E k \in ImportEvents(f, last[f].run) : events[k].event_type = "semantic_duplicate"
            /\ ~last[f].inserted

(* the parser gave file f a period_start and the triple built from the *)
(* parsed values matched no report when f was checked                  *)
C12_ParsedTripleIsNew(f) ==
    /\ Processed(f)
    /\ last[f].parse_status = "success"
    /\ SberParse(files[f].text).period_start # NONE
    /\ ~last[f].parsed_hit

C13_NoParserArchived ==
    \A f \in Fids :
        (Processed(f) /\ last[f].parse_status = "no_parser_found") =>
            /\ files[f].loc = "unrecognized"
            /\ \E k \in ImportEvents(f, last[f].run) : events[k].event_type = "no_parser_found"
            /\ \A i \in 1..Len(reports) : reports[i].fid = f => ~reports[i].has_parsed_data

(* C14: a processed file whose parser raised was inserted as a raw report *)
(* without parsed data under its filename account and period (unless the  *)
(* insert itself failed): no stored triple diverted it.                   *)
C14_ParseFailureInsertsRaw ==
    \A f \in Fids :
        (Processed(f) /\ last[f].parse_status = "parse_failed") =>
            \/ last[f].result = "insert_failed"
            \/ /\ last[f].inserted
               /\ \E i \in 1..Len(reports) :
                    /\ reports[i].fid = f
                    /\ reports[i].processing_status = "raw"
                    /\ ~reports[i].has_parsed_data
                    /\ reports[i].account = extract_account_from_filename(files[f].name)
                    /\ reports[i].period = extract_period_from_filename(files[f].name)

(* C15: in the step that parses a file, a parser result that is None, *)
(* no dict or an empty dict leads to exactly the state a raising      *)
(* parser leads to, and conversely.                                   *)
C15_InvalidOutputAsRaise ==
    [][\A out \in InvalidOutputs : Stage2Core(out) <=> Stage2Core("raises")]_vars

C15_Witness ==
    \E f \in Fids :
        /\ Processed(f)
        /\ last[f].parse_status = "invalid_parser_output"

(* C16: a file whose report was inserted and whose move to              *)
(* archive/imported/ failed is counted in files_failed and not in       *)
(* files_success.                                                       *)
C16_MoveFailureCountedFailed ==
    \A f \in Fids :
        (last[f].result = "archive_failed" /\ last[f].inserted) =>
            last[f].counted = {"files_failed"}

(* file f ended the latest run with a failed insert, or inserted and not moved *)
C17_FailedFile(f) ==
    /\ last[f].run = runs
    /\ \/ last[f].result = "insert_failed"
       \/ last[f].result = "archive_failed" /\ last[f].inserted

(* C17: when a file of a completed run ended with a failed insert, or with *)
(* its report inserted and its move failed, import_reports returned False  *)
(* and the exit status is not 0.                                           *)
C17_FailureGivesNonZeroExit ==
    (RunCompleted /\ \E f \in Discovered : C17_FailedFile(f)) =>
        /\ success = FALSE
        /\ exit_status # 0

(* the files still waiting in the loop of import_reports *)
Queued == { queue[i] : i \in 1..Len(queue) }

(* a call of process_file_enhanced for file f ended in a failure *)
C18_Failed(f) ==
    last[f].result \in {"unreadable", "exception", "insert_failed", "archive_failed"}

(* C18: during a run every discovered file is waiting in the loop, being  *)
(* processed, or was processed in this run, whatever failed before it;     *)
(* when the run has ended, every discovered file was processed in it and   *)
(* files_processed is the number of files discovered.                      *)
C18_NoFileAbortsRun ==
    /\ (pc # "idle") =>
          \A f \in Discovered :
              \/ f \in Queued
              \/ f = cur
              \/ last[f].run = runs /\ Processed(f)
    /\ RunCompleted =>
          /\ stats.files_processed = Len(files_info)
          /\ \A f \in Discovered : last[f].run = runs /\ Processed(f)

C18_Witness ==
    /\ RunCompleted
    /\ Len(files_info) > 1
    /\ C18_Failed(files_info[1])
    /\ Processed(files_info[2])

(* C19: a dry run leaves the persisted reports, the audit records and the *)
(* files of the inbox and of the archive directories as they were.        *)
C19_DryRunChangesNothing ==
    [][DryRun => UNCHANGED <<files, reports, import_log, events>>]_vars

C19_Witness ==
    /\ dry_run
    /\ success = TRUE
    /\ InboxFids # {}
    /\ reports # <<>>

(* broker b has a filename pattern contained in the lower-cased name *)
C20_FilenameMatch(b, name) ==
    \E p \in filename_patterns(b) : \E i \in 1..Len(name) : p \in PatternsIn(Lower(name[i]))

(* broker b has a content pattern contained in the lower-cased content *)
C20_ContentMatch(b, t) ==
    \E p \in html_patterns(b) : \E w \in ContentWords(t) : p \in PatternsIn(w)

(* the broker at the least position of the table among those of positions S *)
C20_First(S) == BrokerOrder[CHOOSE i \in S : \A j \in S : i <= j]

(* C20: detect_broker_tiered returns the first broker of the table with a  *)
(* filename pattern in the name, whatever the content holds and however    *)
(* many patterns match; without any, the first broker of the table with a  *)
(* content pattern in the content; without any, "unknown".                 *)
C20_FirstMatchByTableOrder ==
    pc = "detected" =>
        LET name == files[1].name
            t == files[1].text
            byName == { i \in 1..Len(BrokerOrder) : C20_FilenameMatch(BrokerOrder[i], name) }
            byContent == { i \in 1..Len(BrokerOrder) : C20_ContentMatch(BrokerOrder[i], t) }
        IN  ctx.broker = IF byName # {} THEN C20_First(byName)
                         ELSE IF byContent # {} THEN C20_First(byContent)
                         ELSE "unknown"

(* both brokers match the name, the later one with more patterns, the *)
(* content matches the later one alone, and the earlier one is named  *)
C20_Witness ==
    /\ pc = "detected"
    /\ C20_FilenameMatch("sber", files[1].name)
    /\ Cardinality({ p \in filename_patterns("tinkoff") :
                       \E i \in 1..Len(files[1].name) :
                           p \in PatternsIn(Lower(files[1].name[i])) }) = 2
    /\ ~C20_ContentMatch("sber", files[1].text)
    /\ C20_ContentMatch("tinkoff", files[1].text)
    /\ ctx.broker = "sber"

(* file f was read, its hash was not stored, its parser gave a period and *)
(* the parsed triple matched no report                                    *)
C22_Unique(f) ==
    /\ C12_ParsedTripleIsNew(f)
    /\ last[f].readable
    /\ ~last[f].hash_persisted

(* the reports inserted for file f *)
C22_ReportsOf(f) == { i \in 1..Len(reports) : reports[i].fid = f }

C26_SummaryRows == { i \in 1..Len(import_log) : import_log[i].fid = 0 }

(* C26: when a run that was no dry run has ended, import_log holds one    *)
(* summary row for each run so far, and the last row of import_log is the *)
(* summary of this run with its counters.                                 *)
C26_OneSummaryPerRun ==
    RunCompleted =>
        /\ Cardinality(C26_SummaryRows) = runs
        /\ Len(import_log) > 0
        /\ import_log[Len(import_log)].fid = 0
        /\ import_log[Len(import_log)].files_processed = stats.files_processed
        /\ import_log[Len(import_log)].files_success = stats.files_success
        /\ import_log[Len(import_log)].files_failed = stats.files_failed

(* C27: a processed file whose parser returned data, with or without an   *)
(* account number and a period start, got a decision from the semantic    *)
(* check: it was diverted as a semantic duplicate or went on to the       *)
(* insert.                                                                *)
C27_SemanticCheckDecides ==
    \A f \in Fids :
        (Processed(f) /\ last[f].parse_status = "success") =>
            last[f].result \in {"semantic_duplicate", "imported", "insert_failed", "archive_failed"}

(* C29: a call register_parser(b, C) makes b supported and makes          *)
(* get_parser(b) give an instance of C, and every broker registered       *)
(* before the call other than b keeps its parser class.                   *)
C29_RegisterFrame ==
    [][\A b \in RegistryBrokers, C \in ParserClasses :
         (ret'.op = "register_parser" /\ ret'.broker = b /\ ret'.parser_class = C) =>
            /\ is_broker_supported(b)'
            /\ get_parser(b)' = C
            /\ \A x \in RegistryBrokers \ {b} :
                  is_broker_supported(x) =>
                     /\ is_broker_supported(x)'
                     /\ registry'[x] = registry[x]]_vars

(* a new broker was registered next to the parser that was there *)
C29_Witness ==
    /\ ret.op = "register_parser"
    /\ ret.broker = "test_broker"
    /\ ret.parser_class = "MockParser"
    /\ registry["test_broker"] = "MockParser"
    /\ registry["sber"] = "SberHtmlParser"

(* C30: in every registry state a broker is supported exactly when        *)
(* get_parser returns a parser for it; for a broker that is not           *)
(* registered (the empty string included) get_parser raises ValueError; a *)
(* call of get_parser leaves the registry as it was.                      *)
C30_SupportedIffParser ==
    /\ [](\A b \in RegistryBrokers :
            /\ is_broker_supported(b) <=> get_parser(b) \in ParserClasses
            /\ ~is_broker_supported(b) => get_parser(b) = "ValueError")
    /\ [][ret'.op = "get_parser" =>
            /\ registry' = registry
            /\ ret'.result = get_parser(ret'.broker)
            /\ ret'.broker \notin DOMAIN registry => ret'.result = "ValueError"]_vars

(* get_parser('') raised while another broker had been registered *)
C30_Witness ==
    /\ ret.op = "get_parser"
    /\ ret.broker = ""
    /\ ret.result = "ValueError"
    /\ is_broker_supported("test_broker")
    /\ ~is_broker_supported("")

(* C21: over imports, parse_reports runs (with or without --report-id)    *)
(* and reparse runs, the processing_status of a report changes only from  *)
(* raw to parsed or from raw to error: a parsed or error report keeps its *)
(* status and no report is set back to raw.                               *)
C21_StatusOnlyAdvances ==
    [][\A i \in 1..Len(reports) :
         /\ i <= Len(reports')
         /\ reports'[i].processing_status # reports[i].processing_status =>
               /\ reports[i].processing_status = "raw"
               /\ reports'[i].processing_status \in {"parsed", "error"}]_vars

(* a report went from raw to error, another is parsed, and both have been *)
(* through later runs                                                     *)
C21_Witness ==
    \E i, j \in 1..Len(reports) :
       /\ reports[i].processing_status = "error"
       /\ reports[j].processing_status = "parsed"
       /\ reports[j].has_parsed_data

(* the strings of the model of the form four digits, hyphen, two digits *)
C28_Canonical(period) == period \in {"2023-07", "2023-08"}

(* C28: every report the pipeline has persisted has a period of the form  *)
(* YYYY-MM, whether the period came from the parser or from the file name *)
C28_PeriodCanonical ==
    \A i \in 1..Len(reports) : C28_Canonical(reports[i].period)

(* the reports stored for the content of file f *)
C23_ReportsOfContent(f) ==
    { i \in 1..Len(reports) : reports[i].file_hash = sha256(files[f].text) }

(* C23: a file whose processing was interrupted by a kill and that a      *)
(* later run has processed never has a second report for its content; it  *)
(* was diverted as an exact duplicate when its report had been persisted  *)
(* before the interruption.                                               *)
C23_RerunAfterKill ==
    \A f \in Fids :
        (last[f].interrupted /\ Processed(f) /\ last[f].readable) =>
            /\ Cardinality(C23_ReportsOfContent(f)) <= 1
            /\ last[f].hash_persisted =>
                  /\ last[f].result = "exact_duplicate"
                  /\ ~last[f].inserted

(* the reports stored with the hash of the file the first process works on *)
C24_StoredHash == get_report_by_hash(ctx.file_hash, FALSE)

(* both processes have passed their duplicate checks and stand before *)
(* the insert, for the same content hash                              *)
C24_BothAtInsert ==
    /\ pc = "insert"
    /\ other.pc = "insert"
    /\ ctx.file_hash = other.ctx.file_hash

(* C24: the duplicate check and the insert are not atomic.  When both     *)
(* processes stand before the insert for the same hash (no store or I/O   *)
(* error having happened), neither has inserted yet: both passed the      *)
(* check on a store without the hash; and the insert step looks at the    *)
(* store no more: once both have inserted, the hash is stored twice.      *)
C24_CheckThenAct ==
    /\ (C24_BothAtInsert /\ faults = 0) => C24_StoredHash = {}
    /\ (/\ last[1].inserted
        /\ other.result = "imported"
        /\ sha256(files[1].text) = sha256(files[2].text))
       => Cardinality(get_report_by_hash(sha256(files[1].text), FALSE)) >= 2

(* both processes at the insert step for one hash, nothing stored yet *)
C24_Witness ==
    /\ C24_BothAtInsert
    /\ faults = 0
    /\ reports = <<>>

(* a row with the hash or the triple of the row to insert is stored *)
C25_KeyStored ==
    \E i \in 1..Len(reports) :
       \/ reports[i].file_hash = ctx.file_hash
       \/ /\ reports[i].broker = ctx.broker
          /\ reports[i].account = ctx.account
          /\ reports[i].period = ctx.period

(* C25: when the INSERT of a report fails while a report with the same   *)
(* hash or the same (broker, account, period) is stored (the rejection   *)
(* by a uniqueness constraint), the file is routed to a duplicate        *)
(* archive with a duplicate outcome and is not recorded as an insert     *)
(* failure.                                                              *)
C25_RejectionIsDuplicateSignal ==
    [][(pc = "insert" /\ C25_KeyStored /\ pc' # "insert" /\ reports' = reports) =>
          /\ pc' \in {"exact_move", "sem_move"}
          /\ last'[cur].result # "insert_failed"]_vars

(* the steps of process_file_enhanced that may follow a step *)
C32_After(p) ==
    CASE p = "idle" -> {"idle", "loop"}
      [] p = "loop" -> {"loop", "stage1", "idle"}
      [] p = "stage1" -> {"exact_move", "stage2", "loop"}
      [] p = "exact_move" -> {"exact_log"}
      [] p = "exact_log" -> {"loop"}
      [] p = "stage2" -> {"unrec_move", "sem_move", "insert", "loop"}
      [] p = "unrec_move" -> {"unrec_log", "loop"}
      [] p = "unrec_log" -> {"loop"}
      [] p = "sem_move" -> {"sem_log"}
      [] p = "sem_log" -> {"loop"}
      [] p = "insert" -> {"imp_move", "loop"}
      [] p = "imp_move" -> {"loop"}

(* what a file that was short-circuited has not been through *)
C32_ShortCircuit(f) ==
    /\ last[f].result = "unreadable" =>
          ~last[f].parser_invoked /\ ~last[f].inserted /\ ~last[f].moved
    /\ last[f].result = "exact_duplicate" => ~last[f].parser_invoked /\ ~last[f].inserted
    /\ last[f].result = "no_parser_found" => ~last[f].parser_invoked /\ ~last[f].inserted
    /\ last[f].result = "semantic_duplicate" => last[f].parser_invoked /\ ~last[f].inserted
    /\ last[f].result = "insert_failed" => ~last[f].inserted /\ ~last[f].moved
    /\ last[f].result = "imported" =>
          last[f].readable /\ last[f].parser_invoked /\ last[f].inserted /\ last[f].moved

(* C32: the steps of a file happen in the order read and hash check,      *)
(* classification with parse and semantic check, insert, move to          *)
(* imported/; no step is taken twice, a short-circuit ends the file       *)
(* without a later step, and the next file starts only when the current   *)
(* one has ended.                                                         *)
C32_StepsInOrder ==
    /\ [](\A f \in Fids : C32_ShortCircuit(f))
    /\ [][/\ pc' \in C32_After(pc)
          /\ (pc' = pc /\ pc \notin {"idle", "loop"}) => cur' = cur /\ last' = last
          /\ cur' # cur => \/ pc = "loop" /\ cur = 0 /\ pc' = "stage1"
                           \/ pc' = "loop" /\ cur' = 0]_vars

(* in one run a file was imported and another was diverted as an exact *)
(* duplicate                                                           *)
C32_Witness ==
    \E f, g \in Fids :
       /\ last[f].result = "imported"
       /\ last[g].result = "exact_duplicate"
       /\ last[f].run = last[g].run

(* C34: a file whose content cannot be read is skipped: the reports and  *)
(* the files stay as they are, files_failed grows by one and no other    *)
(* outcome counter changes, and the loop goes on with the files that are *)
(* left.                                                                 *)
C34_UnreadableSkipped ==
    [][(pc = "stage1" /\ last'[cur].result = "unreadable") =>
          /\ reports' = reports
          /\ files' = files
          /\ stats'.files_failed = stats.files_failed + 1
          /\ stats'.files_success = stats.files_success
          /\ stats'.files_skipped = stats.files_skipped
          /\ pc' = "loop"
          /\ queue' = queue]_vars

(* an unreadable file was skipped and the file after it was processed in *)
(* the same run                                                          *)
C34_Witness ==
    \E f, g \in Fids :
       /\ last[f].result = "unreadable"
       /\ last[g].run = last[f].run
       /\ Processed(g)
       /\ \E i, j \in 1..Len(files_info) :
             i < j /\ files_info[i] = f /\ files_info[j] = g

(* the triple the semantic check of step 8 looked up for file f: the *)
(* parsed account and month when the parser gave data, the triple of *)
(* the filename otherwise                                            *)
C36_Queried(f) ==
    LET broker == detect_broker_tiered(files[f].name, files[f].text)
        parsed == SberParse(files[f].text)
    IN  IF last[f].parse_status = "success"
        THEN <<broker, parsed.account_number, Prefix7(parsed.period_start)>>
        ELSE <<broker, extract_account_from_filename(files[f].name),
               extract_period_from_filename(files[f].name)>>

(* C36: the (broker, account, period) stored in a report is the triple *)
(* the semantic check of step 8 looked up for its file just before the *)
(* insert                                                              *)
C36_StoredTripleWasChecked ==
    \A f \in Fids : last[f].inserted =>
        \A i \in C22_ReportsOf(f) :
            <<reports[i].broker, reports[i].account, reports[i].period>> = C36_Queried(f)

(* the same, for files without parsed data only *)
C36_FilenameTripleWasChecked ==
    \A f \in Fids : (last[f].inserted /\ last[f].parse_status # "success") =>
        \A i \in C22_ReportsOf(f) :
            <<reports[i].broker, reports[i].account, reports[i].period>> = C36_Queried(f)

(* the counters when no move into archive/imported/ failed *)
C37_UnlessArchiveFailed ==
    /\ \A f \in Fids : (Processed(f) /\ last[f].result # "archive_failed") =>
          Cardinality(last[f].counted) = 1
    /\ (RunCompleted /\ \A f \in Fids : last[f].result # "archive_failed") =>
          stats.files_processed =
              stats.files_success + stats.files_skipped + stats.files_failed

(* C37: every processed file is counted in exactly one of files_success, *)
(* files_skipped and files_failed, and at the end of a run               *)
(* files_processed is their sum                                          *)
C37_OneCounterPerFile ==
    /\ \A f \in Fids : Processed(f) => Cardinality(last[f].counted) = 1
    /\ RunCompleted =>
          stats.files_processed =
              stats.files_success + stats.files_skipped + stats.files_failed

C39_ImportedMeansParsed ==
    \A f \in Fids :
        (last[f].inserted /\ last[f].parse_status = "success"
            /\ "files_success" \in last[f].counted) =>
            \E i \in C22_ReportsOf(f) :
                /\ reports[i].processing_status = "parsed"
                /\ reports[i].has_parsed_data

(* C31: after any register_parser calls, the parser that get_parser gives *)
(* for a broker of list_supported_brokers reports that broker as its      *)
(* supported broker                                                       *)
C31_ParserReportsItsBroker ==
    \A b \in list_supported_brokers : get_supported_broker(get_parser(b)) = b

(* the value of the latest entry of the field log for field k *)
C35_Latest(k) ==
    LET log == parser.field_log
        at == { i \in 1..Len(log) : log[i].field = k }
    IN  log[CHOOSE i \in at : \A j \in at : j <= i].value

(* C35: after any log_field and clear_logs calls the keys of           *)
(* parsed_fields are the field names of field_log, each mapped to the  *)
(* value of its latest entry; a log_field call appends exactly one     *)
(* entry, whose is_null is true exactly when the value is None, and    *)
(* clear_logs empties both.                                            *)
C35_FieldLogConsistent ==
    /\ [](/\ DOMAIN parser.parsed_fields =
               { parser.field_log[i].field : i \in 1..Len(parser.field_log) }
           /\ \A k \in DOMAIN parser.parsed_fields :
                 parser.parsed_fields[k] = C35_Latest(k)
           /\ \A i \in 1..Len(parser.field_log) :
                 parser.field_log[i].is_null <=> (parser.field_log[i].value = NONE))
    /\ [][/\ parser'.call = "log_field" =>
               /\ Len(parser'.field_log) = Len(parser.field_log) + 1
               /\ SubSeq(parser'.field_log, 1, Len(parser.field_log)) = parser.field_log
          /\ parser'.call = "clear_logs" =>
               parser'.field_log = <<>> /\ parser'.parsed_fields = <<>>]_vars

(* a field was logged twice, last with the empty string, and another with None *)
C35_Witness ==
    /\ parser.call = "log_field"
    /\ Len(parser.field_log) = 3
    /\ parser.field_log[1].field = parser.field_log[3].field
    /\ parser.field_log[1].value = "S000T49"
    /\ parser.field_log[3].value = ""
    /\ parser.field_log[2].field # parser.field_log[1].field
    /\ parser.field_log[2].value = NONE

(* C33: a successful safe_move_file(source, destination) leaves every    *)
(* file of the target directory as it was and removes the source; the    *)
(* file arrives at destination when that name is free, otherwise at      *)
(* <stem>_<k><suffix> for the smallest k >= 1 whose name is free, and k  *)
(* is at most the number of files in the directory.                      *)
C33_SafeMove ==
    [][\A s, t \in MoveNames :
          dirs'.call = [source |-> s, destination |-> t, result |-> "True"] =>
             /\ s \in DOMAIN dirs.source
             /\ s \notin DOMAIN dirs'.source
             /\ \A n \in DOMAIN dirs.target :
                   n \in DOMAIN dirs'.target /\ dirs'.target[n] = dirs.target[n]
             /\ t \notin DOMAIN dirs.target =>
                   /\ DOMAIN dirs'.target = DOMAIN dirs.target \cup {t}
                   /\ dirs'.target[t] = dirs.source[s]
             /\ t \in DOMAIN dirs.target =>
                   \E k \in 1..Cardinality(DOMAIN dirs.target) :
                      /\ new_name(t, k) \notin DOMAIN dirs.target
                      /\ \A j \in 1..(k - 1) : new_name(t, j) \in DOMAIN dirs.target
                      /\ DOMAIN dirs'.target = DOMAIN dirs.target \cup {new_name(t, k)}
                      /\ dirs'.target[new_name(t, k)] = dirs.source[s]]_vars

(* a file was moved onto a name taken twice over: a.html and a_1.html were *)
(* there, the file is a_2.html                                             *)
C33_Witness ==
    LET t == [stem |-> <<"a">>, suffix |-> ".html"]
    IN  /\ dirs.call.result = "True"
        /\ dirs.call.destination = t
        /\ DOMAIN dirs.target = {t, new_name(t, 1), new_name(t, 2)}
        /\ dirs.target[t] = "x"
        /\ dirs.target[new_name(t, 1)] = "x"
        /\ dirs.target[new_name(t, 2)] = "y"
        /\ DOMAIN dirs.source = {}

====
